---- MODULE Spec2Model ----
(***************************************************************************)
(* crates/update-bindings/mapi-scrubbed/testbuild.cpp: six static_assert   *)
(* declarations over constants of MAPIConstants.h.                         *)
(*                                                                         *)
(* The translation unit is modelled as the compiler sees it: the header    *)
(* gives each constant a type and a value, the compiler evaluates the six  *)
(* static_assert declarations and the build ends passed or failed.         *)
(*                                                                         *)
(* An integer is a record [ty, bits]: its C++ type and its two's           *)
(* complement representation as a sequence of 16-bit limbs, most           *)
(* significant first (1 limb for a 16-bit type, 2 for 32 bits, 4 for 64).  *)
(* Limbs keep the 32-bit and 64-bit patterns exact.  "i32" stands for int  *)
(* and long (HRESULT is a long of 32 bits), "u32" for unsigned int and     *)
(* unsigned long, "i64"/"u64" for (unsigned) long long.                    *)
(***************************************************************************)
EXTENDS Integers, Sequences, FiniteSets

VARIABLES consts, evaluated, diags, outcome

vars == <<consts, evaluated, diags, outcome>>

LimbBase == 2^16
LimbMax == LimbBase - 1
SignBit == 2^15

(* Largest distance of a drifted value from the expected one. *)
Spread == 1

----------------------------------------------------------------------------
(* C++ integer types and conversions.                                      *)

Types == {"i16", "u16", "i32", "u32", "i64", "u64"}

Signed(ty) == ty \in {"i16", "i32", "i64"}

Width(ty) == IF ty \in {"i16", "u16"} THEN 1
             ELSE IF ty \in {"i32", "u32"} THEN 2 ELSE 4

Int32(hi, lo) == [ty |-> "i32", bits |-> <<hi, lo>>]
UInt32(hi, lo) == [ty |-> "u32", bits |-> <<hi, lo>>]
Int64(a, b, c, d) == [ty |-> "i64", bits |-> <<a, b, c, d>>]
UInt64(a, b, c, d) == [ty |-> "u64", bits |-> <<a, b, c, d>>]

IsNegative(v) == Signed(v.ty) /\ v.bits[1] >= SignBit

(* The representation of v in n limbs: truncated to the low n limbs, or    *)
(* extended on the left by the sign of a signed v and by zero otherwise.   *)
Resize(v, n) ==
    LET w == Len(v.bits)
        fill == IF IsNegative(v) THEN LimbMax ELSE 0
    IN  IF n <= w THEN SubSeq(v.bits, w - n + 1, w)
        ELSE [k \in 1..(n - w) |-> fill] \o v.bits

(* Variant: a conversion that always extends by zero.                      *)
ConvertZeroExtend(v, ty) ==
    LET w == Len(v.bits)
        n == Width(ty)
    IN  [ty |-> ty,
         bits |-> IF n <= w THEN SubSeq(v.bits, w - n + 1, w)
                  ELSE [k \in 1..(n - w) |-> 0] \o v.bits]

(* Integral conversion to type ty: the value modulo 2^width.               *)
Convert(v, ty) == [ty |-> ty, bits |-> Resize(v, Width(ty))]

(* Variant: the cast left out, the operand keeps its type and value.       *)
StaticCastDropped(ty, v) == v

(* static_cast<T>(v) and (T)v on integers are the integral conversion.     *)
StaticCast(ty, v) == Convert(v, ty)

(* Integral promotion: a type narrower than int becomes int.               *)
Promote(v) == IF Width(v.ty) < 2 THEN Convert(v, "i32") ELSE v

(* The common type of the usual arithmetic conversions, for promoted types: *)
(* of a signed and an unsigned type, the unsigned one unless the signed one *)
(* is wider and so holds all its values.                                    *)
CommonType(t1, t2) ==
    IF t1 = t2 THEN t1
    ELSE IF Signed(t1) = Signed(t2)
         THEN (IF Width(t1) >= Width(t2) THEN t1 ELSE t2)
    ELSE LET u == IF Signed(t1) THEN t2 ELSE t1
             s == IF Signed(t1) THEN t1 ELSE t2
         IN  IF Width(u) >= Width(s) THEN u ELSE s

(* Variant: a comparison of the low 32 bits only.                          *)
EqualsLow32(a, b) == Resize(a, 2) = Resize(b, 2)

(* a == b: both operands promoted, converted to the common type, compared. *)
Equals(a, b) ==
    LET pa == Promote(a)
        pb == Promote(b)
        t == CommonType(pa.ty, pb.ty)
    IN  Convert(pa, t).bits = Convert(pb, t).bits

(* Unary minus on a 32-bit int: two's complement negation.                 *)
Negate(v) ==
    LET lo == (LimbBase - v.bits[2]) % LimbBase
        borrow == IF v.bits[2] = 0 THEN 0 ELSE 1
        hi == (2 * LimbBase - v.bits[1] - borrow) % LimbBase
    IN  [ty |-> v.ty, bits |-> <<hi, lo>>]

----------------------------------------------------------------------------
(* The literals of the six assertions, typed as C++ types them: a hex      *)
(* literal that does not fit int is unsigned int.                          *)

Lit_8004010F == UInt32(\H8004, \H010F)
Lit_1102 == Int32(0, \H1102)
Lit_0070001E == Int32(\H0070, \H001E)
Lit_0 == Int32(0, 0)
Lit_4 == Int32(0, 4)
Lit_1 == Int32(0, 1)

Names == {"MAPI_E_NOT_FOUND", "PT_MV_BINARY", "PR_CONVERSATION_TOPIC_A",
          "BOOKMARK_BEGINNING", "TABLE_SORT_CATEG_MAX", "PRIO_NONURGENT"}

(* Variant: the last declaration lost.                                     *)
AssertionsFive == 1..5

(* The static_assert declarations, numbered in source order.               *)
Assertions == 1..6

(* The constant each assertion reads.                                      *)
Subject(i) ==
    CASE i = 1 -> "MAPI_E_NOT_FOUND"
      [] i = 2 -> "PT_MV_BINARY"
      [] i = 3 -> "PR_CONVERSATION_TOPIC_A"
      [] i = 4 -> "BOOKMARK_BEGINNING"
      [] i = 5 -> "TABLE_SORT_CATEG_MAX"
      [] i = 6 -> "PRIO_NONURGENT"

(* What each assertion checks, after the prefix of the constant it names   *)
(* (MAPI_E_ an error code, PT_ a property type, PR_ a property tag).       *)
Kind(i) ==
    CASE i = 1 -> "error code"
      [] i = 2 -> "property type"
      [] i = 3 -> "property tag"
      [] i = 4 -> "bookmark"
      [] i = 5 -> "table sort maximum"
      [] i = 6 -> "priority"

(* Variant: the literals of the fourth and fifth assertion exchanged.      *)
AssertionSwappedLiterals(i, k) ==
    CASE i = 1 -> Equals(k["MAPI_E_NOT_FOUND"], StaticCast("i32", Lit_8004010F))
      [] i = 2 -> Equals(k["PT_MV_BINARY"], Lit_1102)
      [] i = 3 -> Equals(k["PR_CONVERSATION_TOPIC_A"], Lit_0070001E)
      [] i = 4 -> Equals(k["BOOKMARK_BEGINNING"], Lit_4)
      [] i = 5 -> Equals(k["TABLE_SORT_CATEG_MAX"], Lit_0)
      [] i = 6 -> Equals(StaticCast("i32", k["PRIO_NONURGENT"]), Negate(Lit_1))

(* Variant: the third assertion written with the second one's literal.     *)
AssertionCopiedLiteral(i, k) ==
    CASE i = 1 -> Equals(k["MAPI_E_NOT_FOUND"], StaticCast("i32", Lit_8004010F))
      [] i = 2 -> Equals(k["PT_MV_BINARY"], Lit_1102)
      [] i = 3 -> Equals(k["PR_CONVERSATION_TOPIC_A"], Lit_1102)
      [] i = 4 -> Equals(k["BOOKMARK_BEGINNING"], Lit_0)
      [] i = 5 -> Equals(k["TABLE_SORT_CATEG_MAX"], Lit_4)
      [] i = 6 -> Equals(StaticCast("i32", k["PRIO_NONURGENT"]), Negate(Lit_1))

(* The value of the i-th assertion's expression under the constants k.     *)
Assertion(i, k) ==
    CASE i = 1 -> Equals(k["MAPI_E_NOT_FOUND"], StaticCast("i32", Lit_8004010F))
      [] i = 2 -> Equals(k["PT_MV_BINARY"], Lit_1102)
      [] i = 3 -> Equals(k["PR_CONVERSATION_TOPIC_A"], Lit_0070001E)
      [] i = 4 -> Equals(k["BOOKMARK_BEGINNING"], Lit_0)
      [] i = 5 -> Equals(k["TABLE_SORT_CATEG_MAX"], Lit_4)
      [] i = 6 -> Equals(StaticCast("i32", k["PRIO_NONURGENT"]), Negate(Lit_1))

----------------------------------------------------------------------------
(* The header: the values a constant may have drifted to.                  *)

(* v with its low limb moved by d: a value near v, never v itself.         *)
Drift(v, d) ==
    [v EXCEPT !.bits[Len(v.bits)] = (@ + d) % LimbBase]

Drifted(v) == {Drift(v, d) : d \in 1..Spread}

Header(n) ==
    CASE n = "MAPI_E_NOT_FOUND" ->
            {Int32(\H8004, \H010F), UInt32(\H8004, \H010F),
             Int64(0, 0, \H8004, \H010F),
             Int64(\HFFFF, \HFFFF, \H8004, \H010F),
             UInt64(\HFFFF, \HFFFF, \H8004, \H010F)}
            \cup Drifted(Int32(\H8004, \H010F))
      [] n = "PT_MV_BINARY" ->
            {Int32(0, \H1102), [ty |-> "u16", bits |-> <<\H1102>>],
             Int64(0, 1, 0, \H1102)}
            \cup Drifted(UInt32(0, \H1102))
      [] n = "PR_CONVERSATION_TOPIC_A" ->
            {UInt32(\H0070, \H001E), Int32(0, \H001E)}
            \cup Drifted(UInt32(\H0070, \H001E))
      [] n = "BOOKMARK_BEGINNING" ->
            {Int32(0, 0), Int32(\HFFFF, \HFFFF)}
            \cup Drifted(Int32(0, 0))
      [] n = "TABLE_SORT_CATEG_MAX" ->
            {UInt32(0, 4), UInt64(0, 1, 0, 4)}
            \cup Drifted(UInt32(0, 4))
      [] n = "PRIO_NONURGENT" ->
            {Int32(\HFFFF, \HFFFF), UInt32(\HFFFF, \HFFFF),
             [ty |-> "i16", bits |-> <<\HFFFF>>],
             Int64(0, 0, \HFFFF, \HFFFF), Int64(0, 1, \HFFFF, \HFFFF)}
            \cup Drifted(Int32(\HFFFF, \HFFFF))

----------------------------------------------------------------------------
(* The build.                                                              *)

Init ==
    /\ \E a \in Header("MAPI_E_NOT_FOUND"), b \in Header("PT_MV_BINARY"),
          c \in Header("PR_CONVERSATION_TOPIC_A"), d \in Header("BOOKMARK_BEGINNING"),
          e \in Header("TABLE_SORT_CATEG_MAX"), f \in Header("PRIO_NONURGENT") :
          consts = [n \in Names |->
                      CASE n = "MAPI_E_NOT_FOUND" -> a
                        [] n = "PT_MV_BINARY" -> b
                        [] n = "PR_CONVERSATION_TOPIC_A" -> c
                        [] n = "BOOKMARK_BEGINNING" -> d
                        [] n = "TABLE_SORT_CATEG_MAX" -> e
                        [] n = "PRIO_NONURGENT" -> f]
    /\ evaluated = {}
    /\ diags = {}
    /\ outcome = "pending"

(* Variant: the build outcome follows the last assertion evaluated.        *)
EvaluateLastWins(i) ==
    /\ i \notin evaluated
    /\ evaluated' = evaluated \cup {i}
    /\ IF Assertion(i, consts)
         THEN /\ diags' = diags
              /\ outcome' = "pending"
         ELSE /\ diags' = diags \cup {i}
              /\ outcome' = "failed"
    /\ UNCHANGED consts

(* Variant: a failed assertion overwrites its constant.                    *)
EvaluateRepairs(i) ==
    /\ i \notin evaluated
    /\ evaluated' = evaluated \cup {i}
    /\ IF Assertion(i, consts)
         THEN /\ diags' = diags
              /\ outcome' = outcome
              /\ consts' = consts
         ELSE /\ diags' = diags \cup {i}
              /\ outcome' = "failed"
              /\ consts' = [consts EXCEPT ![Subject(i)] = Lit_0]

(* Variant: only the first false assertion is reported.                    *)
EvaluateFirstErrorOnly(i) ==
    /\ i \notin evaluated
    /\ evaluated' = evaluated \cup {i}
    /\ IF Assertion(i, consts)
         THEN /\ diags' = diags
              /\ outcome' = outcome
         ELSE /\ diags' = IF diags = {} THEN {i} ELSE diags
              /\ outcome' = "failed"
    /\ UNCHANGED consts

(* The compiler evaluates static_assert number i: a false expression is    *)
(* reported and fails the build, and compilation goes on to the next       *)
(* declaration.                                                            *)
Evaluate(i) ==
    /\ i \notin evaluated
    /\ evaluated' = evaluated \cup {i}
    /\ IF Assertion(i, consts)
         THEN /\ diags' = diags
              /\ outcome' = outcome
         ELSE /\ diags' = diags \cup {i}
              /\ outcome' = "failed"
    /\ UNCHANGED consts

(* The end of the translation unit: with no error reported, the build      *)
(* succeeds.                                                               *)
EndOfFile ==
    /\ evaluated = Assertions
    /\ outcome = "pending"
    /\ outcome' = "passed"
    /\ UNCHANGED <<consts, evaluated, diags>>

(* Declarations are evaluated in source order.                             *)
NextInSource == CHOOSE i \in Assertions \ evaluated :
                    \A j \in Assertions \ evaluated : i <= j

(* Variant: compilation abandoned at the first error.                      *)
CompileStopsAtError ==
    /\ evaluated # Assertions
    /\ outcome # "failed"
    /\ Evaluate(NextInSource)

Compile ==
    /\ evaluated # Assertions
    /\ Evaluate(NextInSource)

Next == Compile \/ EndOfFile

Spec == Init /\ [][Next]_vars

Final == evaluated = Assertions /\ outcome \in {"passed", "failed"}

(* The same declarations evaluated in an arbitrary order.                  *)
CompileAnyOrder == \E i \in Assertions : Evaluate(i)

NextAnyOrder == CompileAnyOrder \/ EndOfFile

SpecAnyOrder == Init /\ [][NextAnyOrder]_vars

(* The compiler does not stop while there is a declaration left to         *)
(* evaluate.                                                               *)
FairSpec == Spec /\ WF_vars(Next)

----------------------------------------------------------------------------
(* Values, for stating the properties: the mathematical value of v as an   *)
(* 80-bit two's complement number, which every type above embeds into.     *)

Value(v) ==
    LET w == Len(v.bits)
        fill == IF Signed(v.ty) /\ v.bits[1] >= 2^15 THEN 2^16 - 1 ELSE 0
    IN  [k \in 1..5 |-> IF k <= 5 - w THEN fill ELSE v.bits[k - (5 - w)]]

SameValue(v, w) == Value(v) = Value(w)

(* -2147221233, the 32-bit pattern 0x8004010F read as a signed number.     *)
NotFoundValue == Int32(\H8004, \H010F)

Passed(i) == i \in evaluated /\ i \notin diags
Failed(i) == i \in evaluated /\ i \in diags

False == {i \in Assertions : ~Assertion(i, consts)}

----------------------------------------------------------------------------
(* C1: when some assertion's expression is false the build ends failed and *)
(* every reported diagnostic names an assertion whose expression is false; *)
(* the build never ends passed while some assertion is false.              *)
C1_FalseAssertionFailsBuild ==
    /\ (Final /\ False # {}) => (outcome = "failed" /\ diags # {})
    /\ diags \subseteq False
    /\ (evaluated \cap False # {}) => outcome = "failed"
    /\ outcome = "passed" => False = {}

(* A build that ended failed on the first assertion, all later ones true.  *)
C1_Witness ==
    /\ Final
    /\ outcome = "failed"
    /\ diags = {1}
    /\ False = {1}

----------------------------------------------------------------------------
(* The comparison of MAPI_E_NOT_FOUND with (HRESULT)0x8004010F is true     *)
(* under the usual arithmetic conversions: the constant is -2147221233 in  *)
(* a signed type, or 2^w - 2147221233 in an unsigned type of w bits.       *)
MatchesNotFound(c) ==
    \/ Signed(c.ty) /\ SameValue(c, NotFoundValue)
    \/ c = UInt32(\H8004, \H010F)
    \/ c = UInt64(\HFFFF, \HFFFF, \H8004, \H010F)

----------------------------------------------------------------------------
(* v is congruent to -1 modulo 2^32: its low 32 bits are all ones.         *)
MinusOneMod32(v) == Value(v)[4] = 2^16 - 1 /\ Value(v)[5] = 2^16 - 1

(* C3: the check on PRIO_NONURGENT passes exactly when the constant is     *)
(* congruent to -1 modulo 2^32 (so -1 and 0xFFFFFFFF both pass), and fails *)
(* for every other value.                                                  *)
C3_PassesIffMinusOneMod32 ==
    6 \in evaluated =>
        (Passed(6) <=> MinusOneMod32(consts["PRIO_NONURGENT"]))

(* The check has passed on the 64-bit constant 4294967295.                  *)
C3_Witness ==
    /\ Passed(6)
    /\ consts["PRIO_NONURGENT"] = Int64(0, 0, \HFFFF, \HFFFF)

----------------------------------------------------------------------------
Checked(kind) == {i \in evaluated : Kind(i) = kind}

(* C4, as claimed: the build checks two distinct property-tag constants,   *)
(* one of them PR_CONVERSATION_TOPIC_A == 0x0070001E, and one property     *)
(* type.                                                                   *)
C4_TwoPropertyTagChecks ==
    Final =>
        /\ Cardinality(Checked("property tag")) = 2
        /\ Cardinality(Checked("property type")) = 1

(* C4, amended: the build checks one property-tag constant,                *)
(* PR_CONVERSATION_TOPIC_A against 0x0070001E, and one property type.      *)
C4_OnePropertyTagCheck ==
    Final =>
        /\ Checked("property tag") = {3}
        /\ Subject(3) = "PR_CONVERSATION_TOPIC_A"
        /\ Passed(3) <=> SameValue(consts["PR_CONVERSATION_TOPIC_A"], Lit_0070001E)
        /\ Cardinality(Checked("property type")) = 1

(* A finished build whose only failure is the property-tag check.          *)
C4_Witness ==
    /\ Final
    /\ diags = {3}
    /\ Passed(2)

----------------------------------------------------------------------------
Kinds == {Kind(i) : i \in Assertions}

(* The values section 6 of the specification lists as checked.             *)
Listed(kind) == IF kind = "property tag" THEN 2 ELSE 1

(* C5, as claimed: the six assertions cover every listed value, the two    *)
(* property-tag identifiers among them.                                    *)
C5_SixCoverEveryListedValue ==
    Final =>
        /\ Cardinality(evaluated) = 6
        /\ \A kind \in Kinds : Cardinality(Checked(kind)) = Listed(kind)

(* C5, amended: the test suite is exactly six assertions, one for each of  *)
(* the error code, the property type, one property tag, the bookmark, the  *)
(* table-sort maximum and the priority.                                    *)
C5_SixCoverOneValueEach ==
    Final =>
        /\ Cardinality(evaluated) = 6
        /\ Cardinality(Kinds) = 6
        /\ \A kind \in Kinds : Cardinality(Checked(kind)) = 1

(* A finished build in which all six assertions passed.                    *)
C5_Witness ==
    /\ Final
    /\ outcome = "passed"
    /\ \A i \in 1..6 : Passed(i)

----------------------------------------------------------------------------
(* C6: the property-type check passes exactly when PT_MV_BINARY is 0x1102  *)
(* and the property-tag check exactly when PR_CONVERSATION_TOPIC_A is      *)
(* 0x0070001E, whatever the other constants are.                           *)
C6_TagChecksExact ==
    /\ 2 \in evaluated =>
          (Passed(2) <=> SameValue(consts["PT_MV_BINARY"], Int32(0, \H1102)))
    /\ 3 \in evaluated =>
          (Passed(3) <=> SameValue(consts["PR_CONVERSATION_TOPIC_A"],
                                   Int32(\H0070, \H001E)))

(* The property-type check has failed on 2^32 + 0x1102 and the             *)
(* property-tag check has passed, after the first assertion failed.        *)
C6_Witness ==
    /\ Failed(1)
    /\ Failed(2)
    /\ consts["PT_MV_BINARY"] = Int64(0, 1, 0, \H1102)
    /\ Passed(3)

----------------------------------------------------------------------------
(* C7: the bookmark check passes exactly when BOOKMARK_BEGINNING is 0 and  *)
(* the table-sort check exactly when TABLE_SORT_CATEG_MAX is 4, whatever   *)
(* the other constants are.                                                *)
C7_EnumChecksExact ==
    /\ 4 \in evaluated =>
          (Passed(4) <=> SameValue(consts["BOOKMARK_BEGINNING"], Int32(0, 0)))
    /\ 5 \in evaluated =>
          (Passed(5) <=> SameValue(consts["TABLE_SORT_CATEG_MAX"], Int32(0, 4)))

(* The bookmark check has failed on -1 and the table-sort check has passed *)
(* on 4, in a build where an earlier assertion failed too.                 *)
C7_Witness ==
    /\ Failed(4)
    /\ consts["BOOKMARK_BEGINNING"] = Int32(\HFFFF, \HFFFF)
    /\ Passed(5)
    /\ diags \cap {1, 2, 3} # {}

----------------------------------------------------------------------------
(* C8: no step of the build changes a constant; a check changes only the   *)
(* build's progress, diagnostics and outcome.                              *)
C8_ConstantsNeverChange == [][consts' = consts]_vars

(* Checks have acted, one of them failing.                                 *)
C8_Witness ==
    /\ evaluated = {1, 2, 3}
    /\ diags = {2}
    /\ outcome = "failed"

----------------------------------------------------------------------------
(* C9 (under SpecAnyOrder): in whatever order the assertions are           *)
(* evaluated, the assertions reported false are those whose expression is  *)
(* false under the constants, and the final outcome is passed exactly when *)
(* none is false.                                                          *)
C9_OrderIndependent ==
    /\ diags = evaluated \cap False
    /\ Final => (outcome = IF False = {} THEN "passed" ELSE "failed")
    /\ Final => diags = False

(* The last and the third assertion evaluated before all others, both      *)
(* false.                                                                  *)
C9_Witness ==
    /\ evaluated = {3, 6}
    /\ diags = {3, 6}

----------------------------------------------------------------------------
(* The constants hold the values listed in claim C10.                      *)
AllListedValues ==
    /\ SameValue(consts["MAPI_E_NOT_FOUND"], NotFoundValue)
    /\ SameValue(consts["PT_MV_BINARY"], Int32(0, \H1102))
    /\ SameValue(consts["PR_CONVERSATION_TOPIC_A"], Int32(\H0070, \H001E))
    /\ SameValue(consts["BOOKMARK_BEGINNING"], Int32(0, 0))
    /\ SameValue(consts["TABLE_SORT_CATEG_MAX"], Int32(0, 4))
    /\ MinusOneMod32(consts["PRIO_NONURGENT"])

(* The same, with MAPI_E_NOT_FOUND equal to (HRESULT)0x8004010F under the  *)
(* usual arithmetic conversions.                                           *)
AllExpected ==
    /\ MatchesNotFound(consts["MAPI_E_NOT_FOUND"])
    /\ SameValue(consts["PT_MV_BINARY"], Int32(0, \H1102))
    /\ SameValue(consts["PR_CONVERSATION_TOPIC_A"], Int32(\H0070, \H001E))
    /\ SameValue(consts["BOOKMARK_BEGINNING"], Int32(0, 0))
    /\ SameValue(consts["TABLE_SORT_CATEG_MAX"], Int32(0, 4))
    /\ MinusOneMod32(consts["PRIO_NONURGENT"])

(* C10, as claimed: the build ends passed exactly when MAPI_E_NOT_FOUND is *)
(* -2147221233 and the five other constants hold their expected values.    *)
C10_PassedIffListedValues ==
    Final => (outcome = "passed" <=> AllListedValues)

(* C10, amended (under FairSpec): the build always ends, passed or failed, *)
(* and ends passed exactly when MAPI_E_NOT_FOUND compares equal to         *)
(* (HRESULT)0x8004010F and the five other constants hold their expected    *)
(* values; before the end the outcome is pending or failed.                *)
C10_EndsPassedIffExpected ==
    /\ <>[]Final
    /\ [](outcome \in {"pending", "passed", "failed"})
    /\ [](Final => (outcome = "passed" <=> AllExpected))
    /\ [](outcome = "passed" => Final)

(* A build that ended passed with an unsigned MAPI_E_NOT_FOUND.            *)
C10_Witness ==
    /\ Final
    /\ outcome = "passed"
    /\ ~Signed(consts["MAPI_E_NOT_FOUND"].ty)
    /\ AllExpected

====
